---- MODULE Spec2Model ----
(***************************************************************************)
(* Event intake-and-dispatch pipeline of the Pega-Python integration API.  *)
(*                                                                         *)
(* The state is the `events` table of events.db, the background tasks that *)
(* FastAPI has been handed (add_task) and not yet started, the runs of     *)
(* process_event_background that stand between their two commits, the     *)
(* reprocess requests that stand between their SELECT and their UPDATE,    *)
(* the notes posted to the case system and the last HTTP response.         *)
(*                                                                         *)
(* Granularity: one action is one database transaction (everything up to   *)
(* a conn.commit()) together with the in-memory code around it.  The code  *)
(* takes no lock of its own, so with several worker processes the          *)
(* transactions of different requests and runs interleave freely.  Within  *)
(* one process the endpoints and the background task are coroutines of one *)
(* event loop and contain no await between their transactions, so there a  *)
(* run or a reprocess request that has begun ends before anything else of  *)
(* that process begins.                                                    *)
(***************************************************************************)
EXTENDS Integers, Sequences, FiniteSets, TLC

\* ------------------------------------------------------------------ bounds
MaxEvents == 2
MaxReprocess == 1

\* ------------------------------------------------------- values and inputs
\* Python None as dict.get returns it (str(None) is "None").
None == "None"

\* A nullable column holds NULL or one value.
NULL == << >>
Some(v) == <<v>>

\* models.py, class EventType
DEPARTMENT_CHANGE == "department_change"
EMPLOYEE_ONBOARDING == "employee_onboarding"
EMPLOYEE_OFFBOARDING == "employee_offboarding"
ROLE_CHANGE == "role_change"
APPROVAL_REQUEST == "approval_request"
RISK_ALERT == "risk_alert"

\* models.py, class EventStatus
RECEIVED == "received"
PROCESSING == "processing"
PROCESSED == "processed"
FAILED == "failed"
REQUIRES_ACTION == "requires_action"

EventStatus == {RECEIVED, PROCESSING, PROCESSED, FAILED, REQUIRES_ACTION}

processors_RoleChangeToOffboarding ==
    [t \in {DEPARTMENT_CHANGE, EMPLOYEE_ONBOARDING, EMPLOYEE_OFFBOARDING, ROLE_CHANGE} |->
        CASE t = DEPARTMENT_CHANGE -> "_process_department_change"
          [] t = EMPLOYEE_ONBOARDING -> "_process_onboarding"
          [] t = EMPLOYEE_OFFBOARDING -> "_process_offboarding"
          [] t = ROLE_CHANGE -> "_process_offboarding"]

\* EventProcessor.__init__: the dispatch table, event type -> handler.
processors ==
    [t \in {DEPARTMENT_CHANGE, EMPLOYEE_ONBOARDING, EMPLOYEE_OFFBOARDING, ROLE_CHANGE} |->
        CASE t = DEPARTMENT_CHANGE -> "_process_department_change"
          [] t = EMPLOYEE_ONBOARDING -> "_process_onboarding"
          [] t = EMPLOYEE_OFFBOARDING -> "_process_offboarding"
          [] t = ROLE_CHANGE -> "_process_role_change"]

\* Event types the webhook is called with: the four registered ones and one
\* that EventType declares but EventProcessor does not register.
EventInputs == DOMAIN processors \cup {APPROVAL_REQUEST}

\* The JSON members besides caseId and event: those the handlers read, for a
\* move between low-risk departments and for one into Finance with every
\* risk flag, and a number, within the range of a double and beyond it.
LowRisk ==
    [employeeId |-> "E1", oldDepartment |-> "Sales", newDepartment |-> "Marketing",
     hasFinancialAccess |-> FALSE, hasAdminRights |-> FALSE, accessToSensitiveData |-> FALSE,
     amount |-> "1200"]

HighRisk ==
    [employeeId |-> "E1", oldDepartment |-> "IT", newDepartment |-> "Finance",
     hasFinancialAccess |-> TRUE, hasAdminRights |-> TRUE, accessToSensitiveData |-> TRUE,
     amount |-> "1e400"]

\* A JSON object as it is sent; a member that is absent or null reads as
\* None through dict.get.  `amount` is a member the handlers do not read; its
\* value is a JSON number, written as in the request text.
JsonObject(c, e, x) ==
    [caseId |-> c, event |-> e, employeeId |-> x.employeeId,
     oldDepartment |-> x.oldDepartment, newDepartment |-> x.newDepartment,
     hasFinancialAccess |-> x.hasFinancialAccess, hasAdminRights |-> x.hasAdminRights,
     accessToSensitiveData |-> x.accessToSensitiveData, amount |-> x.amount]

\* Request bodies: not JSON at all, JSON that is no object (a list, a string,
\* null), and JSON objects with caseId or event absent, empty or given.
Bodies ==
    { [kind |-> "malformed", data |-> None], [kind |-> "nonobject", data |-> None] }
    \cup { [kind |-> "object", data |-> JsonObject(c, EMPLOYEE_ONBOARDING, LowRisk)] : c \in {None, ""} }
    \cup { [kind |-> "object", data |-> JsonObject("C-1", e, LowRisk)] : e \in {None, ""} \cup EventInputs }
    \cup { [kind |-> "object", data |-> JsonObject("C-1", DEPARTMENT_CHANGE, HighRisk)] }

\* Python truthiness of a JSON string or None: `not v`.
Not(v) == v \in {None, ""}

\* str(v) of a JSON string or None.
Str(v) == IF v = None THEN "None" ELSE v

\* json.dumps of the webhook's dict: the members in insertion order.
PayloadKeys ==
    <<"caseId", "event", "employeeId", "oldDepartment", "newDepartment",
      "hasFinancialAccess", "hasAdminRights", "accessToSensitiveData", "amount">>

\* The members whose value is a number.
NumberKeys == {"amount"}

\* Python's float() of a JSON number text, as json.loads applies it: a text
\* beyond the range of a double becomes the float inf, also the text
\* Infinity that json.dumps writes; any other number is itself.
ParseNumber(text) == IF text \in {"1e400", "Infinity"} THEN "inf" ELSE text

\* float.__repr__ as json.dumps applies it (allow_nan is True by default).
DumpNumber(v) == IF v = "inf" THEN "Infinity" ELSE v

\* await request.json(): json.loads of the request text.
request_json(obj) ==
    [k \in DOMAIN obj |-> IF k \in NumberKeys THEN ParseNumber(obj[k]) ELSE obj[k]]

JsonDumps(data) ==
    [i \in 1..Len(PayloadKeys) |->
        <<PayloadKeys[i],
          IF PayloadKeys[i] \in NumberKeys THEN DumpNumber(data[PayloadKeys[i]])
                                           ELSE data[PayloadKeys[i]]>>]

\* json.loads of such a text: the dict with these members.
JsonLoads(text) ==
    [k \in {text[i][1] : i \in 1..Len(text)} |->
        LET v == text[CHOOSE i \in 1..Len(text) : text[i][1] = k][2]
        IN  IF k \in NumberKeys THEN ParseNumber(v) ELSE v]

\* ------------------------------------------------------------------- state
VARIABLES
    events,        \* the events table: row id is the index (AUTOINCREMENT, no DELETE)
    intake,        \* history: each row as its INSERT wrote it
    submitted,     \* history: the JSON object of each accepted webhook call, as sent
    scheduled,     \* id -> background tasks added (add_task) and not yet started
    running,       \* id -> runs past the commit of line 92 and before their last commit
    checked,       \* id -> reprocess requests past the status check, before the UPDATE
    reprocessed,   \* number of reprocess requests that passed the status check
    started,       \* history: id -> process_event_background calls begun
    accepted,      \* history: id -> reprocess requests answered 200
    cleared,       \* history: id -> the processing_result of a `failed` record that
                   \* the last accepted reprocess request of id overwrote, else NULL
    pega_client,   \* "configured" or None, fixed at start-up from PEGA_URL
    single_loop,   \* TRUE: one server process, so one event loop; FALSE: several
                   \* worker processes on the same events.db
    notes,         \* add_case_note calls made: <<case id, delivered>>
    response       \* the HTTP response the last step sent, NoResponse if it sent none

vars == <<events, intake, submitted, scheduled, running, checked, reprocessed, started, accepted,
          cleared, pega_client, single_loop, notes, response>>

\* Ids a request or a task can name: the rows there can be, and one beyond.
Ids == 1..(MaxEvents + 1)

InStore(id) == id \in 1..Len(events)

Terminal == {PROCESSED, FAILED, REQUIRES_ACTION}

\* --------------------------------------------------------------- models.py
\* PegaEvent.from_db_row: the in-memory event of a run; __init__ sets RECEIVED.
from_db_row(row) ==
    [event_id |-> row.id, case_id |-> row.case_id, event |-> row.event,
     payload |-> JsonLoads(row.payload_json), received_at |-> row.received_at,
     status |-> RECEIVED]

Min(a, b) == IF a < b THEN a ELSE b

_is_high_risk_department_change(old_dept, new_dept) ==
    LET high_risk_depts == {"Finance", "Security", "IT", "Legal"}
    IN  old_dept \in high_risk_depts \/ new_dept \in high_risk_depts

_calculate_risk_score(payload) ==
    Min((IF payload.hasFinancialAccess THEN 3 ELSE 0)
        + (IF payload.hasAdminRights THEN 4 ELSE 0)
        + (IF payload.accessToSensitiveData THEN 3 ELSE 0), 10)

\* payload.get(key): None when the member is absent.
Get(payload, key) == IF key \in DOMAIN payload THEN payload[key] ELSE None

_update_external_systems(employee_id, new_dept) ==
    << "Updated employee directory for " \o Str(employee_id),
       "Updated badge access for department " \o Str(new_dept),
       "Email signature updated" >>

_create_onboarding_checklist(payload) ==
    << "IT equipment assignment", "Badge creation", "Email account setup",
       "System access requests", "Orientation scheduling" >>

_create_it_access_requests(employee_id, department) ==
    << "Created IT access request for " \o Str(employee_id),
       "Submitted department-specific system access for " \o Str(department) >>

_revoke_system_access(employee_id) ==
    << "Revoked all system access for " \o Str(employee_id),
       "Disabled email account", "Returned badge access" >>

_create_asset_return_list(employee_id) == <<"Laptop", "Badge", "Phone", "Office keys">>

_update_role_permissions(employee_id, old_role, new_role) ==
    << "Updated system permissions for " \o Str(employee_id),
       "Role changed from " \o Str(old_role) \o " to " \o Str(new_role) \o " in all systems" >>

\* Each handler yields its result document and the add_case_note calls it
\* made: <<case id, what add_case_note returned>>.  client is pega_client,
\* noteOk what add_case_note returns.  The risk flags are read as the
\* booleans the request bodies give them; the arrow of the two *_change
\* strings is written "->".
_process_department_change(event, client, noteOk) ==
    LET payload == event.payload
        employee_id == Get(payload, "employeeId")
        old_dept == Get(payload, "oldDepartment")
        new_dept == Get(payload, "newDepartment")
        high == _is_high_risk_department_change(old_dept, new_dept)
        risk_score == _calculate_risk_score(payload)
        alert == high /\ risk_score > 7 /\ client # None
        actions_taken ==
            (IF high THEN <<"Risk analysis completed. Score: " \o ToString(risk_score)>> ELSE <<>>)
            \o (IF alert THEN <<"Risk alert sent to Pega">> ELSE <<>>)
            \o _update_external_systems(employee_id, new_dept)
    IN  [result |-> [status |-> "processed", event_type |-> "department_change",
                     actions_taken |-> actions_taken, employee_id |-> employee_id,
                     department_change |-> Str(old_dept) \o " -> " \o Str(new_dept)],
         calls |-> IF alert THEN << <<event.case_id, noteOk>> >> ELSE <<>>]

_process_onboarding(event) ==
    LET payload == event.payload
        employee_id == Get(payload, "employeeId")
        department == Get(payload, "department")
        checklist == _create_onboarding_checklist(payload)
        actions_taken ==
            <<"Onboarding checklist created with " \o ToString(Len(checklist)) \o " items">>
            \o _create_it_access_requests(employee_id, department)
    IN  [result |-> [status |-> "processed", event_type |-> "employee_onboarding",
                     actions_taken |-> actions_taken, employee_id |-> employee_id,
                     checklist_items |-> Len(checklist)],
         calls |-> <<>>]

_process_offboarding(event) ==
    LET payload == event.payload
        employee_id == Get(payload, "employeeId")
        last_day == Get(payload, "lastWorkingDay")
        asset_list == _create_asset_return_list(employee_id)
        actions_taken ==
            _revoke_system_access(employee_id)
            \o <<"Asset return checklist created: " \o ToString(Len(asset_list)) \o " items">>
    IN  [result |-> [status |-> "processed", event_type |-> "employee_offboarding",
                     actions_taken |-> actions_taken, employee_id |-> employee_id,
                     last_working_day |-> last_day],
         calls |-> <<>>]

_process_role_change(event) ==
    LET payload == event.payload
        employee_id == Get(payload, "employeeId")
        old_role == Get(payload, "oldRole")
        new_role == Get(payload, "newRole")
    IN  [result |-> [status |-> "processed", event_type |-> "role_change",
                     actions_taken |-> _update_role_permissions(employee_id, old_role, new_role),
                     employee_id |-> employee_id,
                     role_change |-> Str(old_role) \o " -> " \o Str(new_role)],
         calls |-> <<>>]

\* processor(event): the call through the dispatch table.
CallProcessor(processor, event, client, noteOk) ==
    CASE processor = "_process_department_change" -> _process_department_change(event, client, noteOk)
      [] processor = "_process_onboarding" -> _process_onboarding(event)
      [] processor = "_process_offboarding" -> _process_offboarding(event)
      [] processor = "_process_role_change" -> _process_role_change(event)

HandlerError_NamesAttempt == "handler error, attempt " \o ToString(reprocessed + 1)

\* str(e) of an exception a handler raises.
HandlerError == "handler error"

process_event_NeedsActionAfterAlert(event, client, raises, noteOk) ==
    IF event.event \notin DOMAIN processors
    THEN [status |-> event.status,
          result |-> [status |-> "ignored",
                      message |-> "No processor found for event type: " \o event.event],
          calls |-> <<>>]
    ELSE LET out == CallProcessor(processors[event.event], event, client, noteOk)
         IN  IF raises
             THEN [status |-> FAILED,
                   result |-> [status |-> "error", message |-> HandlerError],
                   calls |-> out.calls]
             ELSE [status |-> IF out.calls # <<>> THEN REQUIRES_ACTION ELSE PROCESSED,
                   result |-> out.result, calls |-> out.calls]

process_event_KeepsStatusOnError(event, client, raises, noteOk) ==
    IF event.event \notin DOMAIN processors
    THEN [status |-> event.status,
          result |-> [status |-> "ignored",
                      message |-> "No processor found for event type: " \o event.event],
          calls |-> <<>>]
    ELSE LET out == CallProcessor(processors[event.event], event, client, noteOk)
         IN  IF raises
             THEN [status |-> event.status,
                   result |-> [status |-> "error", message |-> HandlerError],
                   calls |-> out.calls]
             ELSE [status |-> PROCESSED, result |-> out.result, calls |-> out.calls]

\* EventProcessor.process_event: the status left on the in-memory event, the
\* returned document and the case-system calls made.  raises: the handler
\* raises (after its case-system call, if it makes one).
process_event(event, client, raises, noteOk) ==
    IF event.event \notin DOMAIN processors
    THEN [status |-> event.status,
          result |-> [status |-> "ignored",
                      message |-> "No processor found for event type: " \o event.event],
          calls |-> <<>>]
    ELSE LET out == CallProcessor(processors[event.event], event, client, noteOk)
         IN  IF raises
             THEN [status |-> FAILED,
                   result |-> [status |-> "error", message |-> HandlerError],
                   calls |-> out.calls]
             ELSE [status |-> PROCESSED, result |-> out.result, calls |-> out.calls]

\* ------------------------------------------------------------------ app.py
\* datetime.utcnow(): the wall clock.  No operation of the pipeline reads a
\* stored timestamp back or compares two of them, so one instant stands for
\* every reading.
utcnow == [seconds |-> "2025-01-15T10:30:00", microseconds |-> ".123456"]

\* datetime.isoformat(timespec=...)
isoformat(dt, timespec) ==
    IF timespec = "seconds" THEN dt.seconds ELSE dt.seconds \o dt.microseconds

\* str(e) of an exception raised inside process_event_background (sqlite3).
PipelineError == "database is locked"

\* No response leaves the server in a step that is a background task or the
\* first half of a reprocess request.
NoResponse == [endpoint |-> "none", status_code |-> 0, eventId |-> 0]

\* The event loop is free to start a coroutine: pega_webhook, reprocess_event
\* and process_event_background are `async def` and make their sqlite3 and
\* requests calls without await, so in a single process none of them starts
\* while a run or a reprocess request is between two of its transactions.
LoopFree == single_loop => \A id \in Ids : running[id] = 0 /\ checked[id] = 0

Init ==
    /\ events = <<>>
    /\ intake = <<>>
    /\ submitted = <<>>
    /\ scheduled = [id \in Ids |-> 0]
    /\ running = [id \in Ids |-> 0]
    /\ checked = [id \in Ids |-> 0]
    /\ reprocessed = 0
    /\ started = [id \in Ids |-> 0]
    /\ accepted = [id \in Ids |-> 0]
    /\ cleared = [id \in Ids |-> NULL]
    /\ pega_client \in {None, "configured"}
    /\ single_loop \in BOOLEAN
    /\ notes = <<>>
    /\ response = NoResponse

InsertedRow_ReusesId(event_id, data, now) ==
    [id |-> 1, received_at |-> now, case_id |-> Str(data.caseId),
     event |-> Str(data.event), payload_json |-> JsonDumps(data),
     status |-> RECEIVED, processed_at |-> NULL, processing_result |-> NULL]

InsertedRow_StampsProcessedAt(event_id, data, now) ==
    [id |-> event_id, received_at |-> now, case_id |-> Str(data.caseId),
     event |-> Str(data.event), payload_json |-> JsonDumps(data),
     status |-> RECEIVED, processed_at |-> Some(now), processing_result |-> NULL]

\* The row INSERT INTO events writes: the columns it names, the DEFAULT of
\* status, NULL for the two columns it leaves out.
InsertedRow(event_id, data, now) ==
    [id |-> event_id, received_at |-> now, case_id |-> Str(data.caseId),
     event |-> Str(data.event), payload_json |-> JsonDumps(data),
     status |-> RECEIVED, processed_at |-> NULL, processing_result |-> NULL]

\* POST /webhook/pega
pega_webhook(body) ==
    /\ LoopFree
    /\ IF body.kind = "malformed"
       THEN \* request.json() raises: HTTPException(400, "Invalid JSON")
            /\ response' = [endpoint |-> "webhook", status_code |-> 400, eventId |-> 0]
            /\ UNCHANGED <<events, intake, submitted, scheduled, running, checked, reprocessed, started, accepted, cleared, pega_client, single_loop, notes>>
       ELSE IF body.kind = "nonobject"
       THEN \* data.get raises AttributeError outside any try: 500
            /\ response' = [endpoint |-> "webhook", status_code |-> 500, eventId |-> 0]
            /\ UNCHANGED <<events, intake, submitted, scheduled, running, checked, reprocessed, started, accepted, cleared, pega_client, single_loop, notes>>
       ELSE IF Not(body.data.caseId) \/ Not(body.data.event)
       THEN /\ response' = [endpoint |-> "webhook", status_code |-> 400, eventId |-> 0]
            /\ UNCHANGED <<events, intake, submitted, scheduled, running, checked, reprocessed, started, accepted, cleared, pega_client, single_loop, notes>>
       ELSE LET event_id == Len(events) + 1
            IN  /\ Len(events) < MaxEvents
                /\ events' = Append(events, InsertedRow(event_id, request_json(body.data),
                                                        isoformat(utcnow, "seconds") \o "Z"))
                /\ intake' = Append(intake, events'[event_id])
                /\ submitted' = Append(submitted, body.data)
                /\ scheduled' = [scheduled EXCEPT ![event_id] = @ + 1]
                /\ response' = [endpoint |-> "webhook", status_code |-> 200, eventId |-> event_id]
                /\ UNCHANGED <<running, checked, reprocessed, started, accepted, cleared, pega_client, single_loop, notes>>

\* UPDATE events SET status = ? WHERE id = ?   (line 91)
MarkProcessing(row) == [row EXCEPT !.status = PROCESSING]

SaveResult_StampsReceivedAt(row, status, now, result) ==
    [row EXCEPT !.status = status, !.received_at = now,
                !.processed_at = Some(now), !.processing_result = Some(result)]

\* UPDATE events SET status = ?, processed_at = ?, processing_result = ? WHERE id = ?
\* (lines 98-101 and 113-116)
SaveResult(row, status, now, result) ==
    [row EXCEPT !.status = status, !.processed_at = Some(now), !.processing_result = Some(result)]

RunStart_RetriesAbsentId(id, fault) ==
    /\ LoopFree
    /\ scheduled[id] > 0
    /\ scheduled' = IF InStore(id) THEN [scheduled EXCEPT ![id] = @ - 1] ELSE scheduled
    /\ started' = [started EXCEPT ![id] = @ + 1]
    /\ IF ~InStore(id)
       THEN UNCHANGED <<events, running>>
       ELSE IF fault
       THEN /\ events' = [events EXCEPT ![id] =
                            SaveResult(@, FAILED, isoformat(utcnow, "auto") \o "Z", [error |-> PipelineError])]
            /\ UNCHANGED running
       ELSE /\ events' = [events EXCEPT ![id] = MarkProcessing(@)]
            /\ running' = [running EXCEPT ![id] = @ + 1]
    /\ response' = NoResponse
    /\ UNCHANGED <<intake, submitted, checked, reprocessed, accepted, cleared, pega_client, single_loop, notes>>

RunStart_UpdatesEveryRow(id, fault) ==
    /\ LoopFree
    /\ scheduled[id] > 0
    /\ scheduled' = [scheduled EXCEPT ![id] = @ - 1]
    /\ started' = [started EXCEPT ![id] = @ + 1]
    /\ IF ~InStore(id)
       THEN UNCHANGED <<events, running>>
       ELSE IF fault
       THEN /\ events' = [events EXCEPT ![id] =
                            SaveResult(@, FAILED, isoformat(utcnow, "auto") \o "Z", [error |-> PipelineError])]
            /\ UNCHANGED running
       ELSE /\ events' = [i \in 1..Len(events) |-> MarkProcessing(events[i])]
            /\ running' = [running EXCEPT ![id] = @ + 1]
    /\ response' = NoResponse
    /\ UNCHANGED <<intake, submitted, checked, reprocessed, accepted, cleared, pega_client, single_loop, notes>>

\* process_event_background, lines 76-92: the task starts, loads the row and
\* commits `processing`.  fault: an exception before that UPDATE, which the
\* except clause (lines 107-118) records as `failed`.
RunStart(id, fault) ==
    /\ LoopFree
    /\ scheduled[id] > 0
    /\ scheduled' = [scheduled EXCEPT ![id] = @ - 1]
    /\ started' = [started EXCEPT ![id] = @ + 1]
    /\ IF ~InStore(id)
       THEN UNCHANGED <<events, running>>
       ELSE IF fault
       THEN /\ events' = [events EXCEPT ![id] =
                            SaveResult(@, FAILED, isoformat(utcnow, "auto") \o "Z", [error |-> PipelineError])]
            /\ UNCHANGED running
       ELSE /\ events' = [events EXCEPT ![id] = MarkProcessing(@)]
            /\ running' = [running EXCEPT ![id] = @ + 1]
    /\ response' = NoResponse
    /\ UNCHANGED <<intake, submitted, checked, reprocessed, accepted, cleared, pega_client, single_loop, notes>>

\* process_event_background, lines 94-103: dispatch and commit the outcome.
\* fault: an exception after the handler ran (line 98), recorded by the
\* except clause.
RunFinish(id, raises, noteOk, fault) ==
    /\ running[id] > 0
    /\ running' = [running EXCEPT ![id] = @ - 1]
    /\ LET event == from_db_row(events[id])
           out == process_event(event, pega_client, raises, noteOk)
       IN  /\ notes' = notes \o out.calls
           /\ events' = [events EXCEPT ![id] =
                           IF fault
                           THEN SaveResult(@, FAILED, isoformat(utcnow, "auto") \o "Z", [error |-> PipelineError])
                           ELSE SaveResult(@, out.status, isoformat(utcnow, "auto") \o "Z", out.result)]
    /\ response' = NoResponse
    /\ UNCHANGED <<intake, submitted, scheduled, checked, reprocessed, started, accepted, cleared, pega_client, single_loop>>

ReprocessCheck_AcceptsProcessing(id) ==
    /\ LoopFree
    /\ IF ~InStore(id)
       THEN /\ response' = [endpoint |-> "reprocess", status_code |-> 404, eventId |-> id]
            /\ UNCHANGED <<events, intake, submitted, scheduled, running, checked, reprocessed, started, accepted, cleared, pega_client, single_loop, notes>>
       ELSE IF events[id].status \notin {FAILED, RECEIVED, PROCESSING}
       THEN /\ response' = [endpoint |-> "reprocess", status_code |-> 400, eventId |-> id]
            /\ UNCHANGED <<events, intake, submitted, scheduled, running, checked, reprocessed, started, accepted, cleared, pega_client, single_loop, notes>>
       ELSE /\ reprocessed < MaxReprocess
            /\ reprocessed' = reprocessed + 1
            /\ checked' = [checked EXCEPT ![id] = @ + 1]
            /\ response' = NoResponse
            /\ UNCHANGED <<events, intake, submitted, scheduled, running, started, accepted, cleared, pega_client, single_loop, notes>>

\* reprocess_event, lines 317-327: the status check.
ReprocessCheck(id) ==
    /\ LoopFree
    /\ IF ~InStore(id)
       THEN /\ response' = [endpoint |-> "reprocess", status_code |-> 404, eventId |-> id]
            /\ UNCHANGED <<events, intake, submitted, scheduled, running, checked, reprocessed, started, accepted, cleared, pega_client, single_loop, notes>>
       ELSE IF events[id].status \notin {FAILED, RECEIVED}
       THEN /\ response' = [endpoint |-> "reprocess", status_code |-> 400, eventId |-> id]
            /\ UNCHANGED <<events, intake, submitted, scheduled, running, checked, reprocessed, started, accepted, cleared, pega_client, single_loop, notes>>
       ELSE /\ reprocessed < MaxReprocess
            /\ reprocessed' = reprocessed + 1
            /\ checked' = [checked EXCEPT ![id] = @ + 1]
            /\ response' = NoResponse
            /\ UNCHANGED <<events, intake, submitted, scheduled, running, started, accepted, cleared, pega_client, single_loop, notes>>

ResetRow_KeepsTimestamp(row) ==
    [row EXCEPT !.status = RECEIVED, !.processing_result = NULL]

ResetRow_KeepsResult(row) ==
    [row EXCEPT !.status = RECEIVED, !.processed_at = NULL]

\* UPDATE events SET status = 'received', processed_at = NULL,
\* processing_result = NULL WHERE id = ?   (line 332)
ResetRow(row) ==
    [row EXCEPT !.status = RECEIVED, !.processed_at = NULL, !.processing_result = NULL]

\* reprocess_event, lines 329-338: the reset, add_task and the response.
ReprocessReset(id) ==
    /\ checked[id] > 0
    /\ checked' = [checked EXCEPT ![id] = @ - 1]
    /\ events' = [events EXCEPT ![id] = ResetRow(@)]
    /\ scheduled' = [scheduled EXCEPT ![id] = @ + 1]
    /\ accepted' = [accepted EXCEPT ![id] = @ + 1]
    /\ cleared' = [cleared EXCEPT ![id] =
                      IF events[id].status = FAILED THEN events[id].processing_result ELSE NULL]
    /\ response' = [endpoint |-> "reprocess", status_code |-> 200, eventId |-> id]
    /\ UNCHANGED <<intake, submitted, running, reprocessed, started, pega_client, single_loop, notes>>

Next ==
    \/ \E body \in Bodies : pega_webhook(body)
    \/ \E id \in Ids, fault \in BOOLEAN : RunStart(id, fault)
    \/ \E id \in Ids, raises \in BOOLEAN, noteOk \in BOOLEAN, fault \in BOOLEAN :
          RunFinish(id, raises, noteOk, fault)
    \/ \E id \in Ids : ReprocessCheck(id)
    \/ \E id \in Ids : ReprocessReset(id)

Spec == Init /\ [][Next]_vars

\* The dict list_events and get_event build of a row (lines 187-198, 304-312).
EventDict(row) ==
    [id |-> row.id, received_at |-> row.received_at, caseId |-> row.case_id,
     event |-> row.event, payload |-> JsonLoads(row.payload_json),
     status |-> row.status, processed_at |-> row.processed_at,
     processing_result |-> row.processing_result]

\* The response renders its content with json.dumps(..., allow_nan=False),
\* which raises ValueError on a float inf or nan.
Renders(dict) ==
    \A k \in DOMAIN dict.payload \cap NumberKeys : dict.payload[k] # "inf"

\* The JSON object the client reads for an event dict that renders.
Rendered(dict) ==
    [dict EXCEPT !.payload =
        [k \in DOMAIN dict.payload |->
            IF k \in NumberKeys THEN DumpNumber(dict.payload[k]) ELSE dict.payload[k]]]

\* GET /events/{event_id}
get_event(event_id) ==
    IF ~InStore(event_id)
    THEN [status_code |-> 404, body |-> NULL]
    ELSE LET dict == EventDict(events[event_id])
         IN  IF Renders(dict)
             THEN [status_code |-> 200, body |-> Rendered(dict)]
             ELSE [status_code |-> 500, body |-> NULL]

\* The ids of S from the greatest to the least: ORDER BY id DESC.
RECURSIVE OrderByIdDesc(_)
OrderByIdDesc(S) ==
    IF S = {} THEN <<>>
    ELSE LET top == CHOOSE id \in S : \A other \in S : other <= id
         IN  <<top>> \o OrderByIdDesc(S \ {top})

\* The rows the SELECT of list_events returns: a filter that is None or ""
\* adds no condition (`if event:`).
Selected(limit, event, status, case_id) ==
    LET match == { id \in 1..Len(events) :
                     /\ Not(event) \/ events[id].event = event
                     /\ Not(status) \/ events[id].status = status
                     /\ Not(case_id) \/ events[id].case_id = case_id }
        ordered == OrderByIdDesc(match)
    IN  SubSeq(ordered, 1, Min(limit, Len(ordered)))

\* GET /events: query.limit is NULL when the request gives no limit;
\* Query(10, ge=1, le=100) answers 422 before the function is called.
list_events(query) ==
    LET limit == IF query.limit = NULL THEN 10 ELSE query.limit[1]
    IN  IF limit < 1 \/ limit > 100
        THEN [status_code |-> 422, body |-> <<>>]
        ELSE LET ids == Selected(limit, query.event, query.status, query.case_id)
                 dicts == [i \in 1..Len(ids) |-> EventDict(events[ids[i]])]
             IN  IF \A i \in 1..Len(dicts) : Renders(dicts[i])
                 THEN [status_code |-> 200,
                       body |-> [i \in 1..Len(dicts) |-> Rendered(dicts[i])]]
                 ELSE [status_code |-> 500, body |-> <<>>]

\* process_event_background(event_id) takes any integer.  BadId is an id no
\* INSERT assigns within the bound; in SpecStrayTask one call with it is
\* queued from the start, so that lines 84-86 are run against every store.
BadId == MaxEvents + 1

InitStrayTask ==
    /\ events = <<>>
    /\ intake = <<>>
    /\ submitted = <<>>
    /\ scheduled = [id \in Ids |-> IF id = BadId THEN 1 ELSE 0]
    /\ running = [id \in Ids |-> 0]
    /\ checked = [id \in Ids |-> 0]
    /\ reprocessed = 0
    /\ started = [id \in Ids |-> 0]
    /\ accepted = [id \in Ids |-> 0]
    /\ cleared = [id \in Ids |-> NULL]
    /\ pega_client \in {None, "configured"}
    /\ single_loop \in BOOLEAN
    /\ notes = <<>>
    /\ response = NoResponse

SpecStrayTask == InitStrayTask /\ [][Next]_vars

\* ------------------------------------------------------------------ claims
Rows == 1..Len(events)

\* No task is scheduled, no run is under way, no reprocess request is half done.
Quiescent == \A id \in Ids : scheduled[id] = 0 /\ running[id] = 0 /\ checked[id] = 0

\* The step completes a processing run of id (its last commit).
RunEnds(id) == running'[id] < running[id]

\* The step is the status check of a reprocess request for id.
ReprocessChecked(id) ==
    \/ checked'[id] > checked[id]
    \/ /\ response'.endpoint = "reprocess"
       /\ response'.eventId = id
       /\ response'.status_code # 200

\* The step answers an accepted reprocess request for id.
ReprocessAccepted(id) ==
    /\ response'.endpoint = "reprocess"
    /\ response'.eventId = id
    /\ response'.status_code = 200

\* The step answers an accepted webhook call with id.
WebhookAccepted(id) ==
    /\ response'.endpoint = "webhook"
    /\ response'.eventId = id
    /\ response'.status_code = 200

\* C1: in every reachable state no event has status processing with a
\* non-null processedAt, and none has status processed or failed with a null
\* processedAt.
C1_StatusMatchesProcessedAt ==
    \A id \in Rows :
        /\ events[id].status = PROCESSING => events[id].processed_at = NULL
        /\ events[id].status \in {PROCESSED, FAILED} => events[id].processed_at # NULL

\* C2: every change of an event's stored status is received -> processing,
\* processing -> terminal, received -> failed (a failure before dispatch) or
\* the reset to received of an accepted reprocess, and every processing run
\* ends by storing a terminal status.
C2_StatusFollowsStateMachine ==
    [][\A id \in Rows :
          LET old == events[id].status
              new == events'[id].status
          IN  /\ old # new =>
                    \/ old = RECEIVED /\ new = PROCESSING
                    \/ old = PROCESSING /\ new \in Terminal
                    \/ old = RECEIVED /\ new = FAILED /\ scheduled'[id] < scheduled[id]
                    \/ old = FAILED /\ new = RECEIVED /\ ReprocessAccepted(id)
              /\ RunEnds(id) => new \in Terminal]_vars

\* C3: once an event's stored status is processed or requires_action, it
\* keeps that status in every later state.
C3_ProcessedIsKept ==
    [][\A id \in Rows :
          events[id].status \in {PROCESSED, REQUIRES_ACTION}
              => events'[id].status = events[id].status]_vars

\* C4: a run of an event whose type has no registered handler that stores
\* the dispatcher's outcome stores the ignored outcome with status processed.
C4_IgnoredIsProcessed ==
    [][\A id \in Rows :
          (RunEnds(id) /\ events[id].event \notin DOMAIN processors
              /\ events'[id].processing_result # Some([error |-> PipelineError]))
          => /\ events'[id].processing_result[1].status = "ignored"
             /\ events'[id].status = PROCESSED]_vars

\* C5: when the webhook calls have been accepted, no reprocess request was
\* made and every scheduled run has been carried out, every event has a
\* terminal status, whatever its event type.
C5_AllRunsDoneAllTerminal ==
    (Quiescent /\ reprocessed = 0) => \A id \in Rows : events[id].status \in Terminal

\* C6: the status check of a reprocess request answers 404 when the id is
\* not in the store and 400 when the event's status is not failed or
\* received; in both cases no record changes, no run is scheduled and the
\* request goes no further.
C6_ReprocessRejected ==
    [][\A id \in Ids :
          ReprocessChecked(id) =>
              IF ~InStore(id)
              THEN /\ response'.status_code = 404
                   /\ UNCHANGED <<events, scheduled, running, checked>>
              ELSE IF events[id].status \in {PROCESSING, PROCESSED, REQUIRES_ACTION}
              THEN /\ response'.status_code = 400
                   /\ UNCHANGED <<events, scheduled, running, checked>>
              ELSE /\ checked'[id] = checked[id] + 1
                   /\ response' = NoResponse]_vars

C6_Witness ==
    /\ response.endpoint = "reprocess"
    /\ response.status_code = 400
    /\ InStore(response.eventId)
    /\ events[response.eventId].status = PROCESSED
    /\ Quiescent

InvalidBody(body) ==
    \/ body.kind # "object"
    \/ body.data.caseId \in {None, ""}
    \/ body.data.event \in {None, ""}

\* C8: a webhook call with a body that is no JSON, no JSON object, or lacks
\* a non-empty caseId or event is answered 400, inserts no record and
\* schedules no run.
C8_InvalidBodyRejected ==
    [][\A body \in Bodies :
          (InvalidBody(body) /\ pega_webhook(body)) =>
              /\ response'.status_code = 400
              /\ UNCHANGED <<events, scheduled, running>>]_vars

\* C9: an accepted webhook call appends exactly one record, with status
\* received and null processedAt and processingResult, schedules exactly
\* one run, for the new id, and answers with that id while no run of it has
\* started; a run is only ever scheduled or under way for an id whose
\* insert is committed.
C9_WebhookInsertsAndSchedules ==
    /\ [][\A id \in Ids :
             WebhookAccepted(id) =>
                 /\ id = Len(events) + 1
                 /\ Len(events') = id
                 /\ SubSeq(events', 1, Len(events)) = events
                 /\ events'[id].id = id
                 /\ events'[id].status = RECEIVED
                 /\ events'[id].processed_at = NULL
                 /\ events'[id].processing_result = NULL
                 /\ scheduled[id] = 0
                 /\ scheduled' = [scheduled EXCEPT ![id] = 1]
                 /\ running' = running
                 /\ running[id] = 0]_vars
    /\ [](\A id \in Ids : (scheduled[id] > 0 \/ running[id] > 0) => InStore(id))

C9_Witness ==
    /\ response.endpoint = "webhook"
    /\ response.status_code = 200
    /\ response.eventId = 2
    /\ Len(events) = 2
    /\ events[2].status = RECEIVED
    /\ scheduled[2] = 1
    /\ events[1].status = PROCESSING

\* The document stored with an event holds an error message string.
HasErrorMessage(doc) ==
    \/ "message" \in DOMAIN doc /\ doc.message \in {HandlerError, PipelineError}
    \/ "error" \in DOMAIN doc /\ doc.error \in {HandlerError, PipelineError}

\* C10: when the handler of an event raises, also after its case-system
\* call, the dispatcher returns an error outcome with the message, and the
\* run stores status failed with a non-null processedAt and a result that
\* holds an error message; the case-system calls made stay made.
C10_HandlerErrorIsStored ==
    [][\A id \in Rows :
          (RunEnds(id) /\ events[id].event \in DOMAIN processors) =>
              \A noteOk \in BOOLEAN, fault \in BOOLEAN :
                  RunFinish(id, TRUE, noteOk, fault) =>
                      LET out == process_event(from_db_row(events[id]), pega_client, TRUE, noteOk)
                      IN  /\ out.result = [status |-> "error", message |-> HandlerError]
                          /\ events'[id].status = FAILED
                          /\ events'[id].processed_at # NULL
                          /\ events'[id].processing_result # NULL
                          /\ HasErrorMessage(events'[id].processing_result[1])
                          /\ ~fault => events'[id].processing_result = Some(out.result)
                          /\ Len(notes') = Len(notes) + Len(out.calls)
                          /\ SubSeq(notes', 1, Len(notes)) = notes]_vars

C10_Witness ==
    \E id \in Rows :
        /\ events[id].status = FAILED
        /\ events[id].processing_result = Some([status |-> "error", message |-> HandlerError])
        /\ events[id].processed_at # NULL
        /\ notes = << <<events[id].case_id, TRUE>> >>

\* C11: when the registered handler of an event returns normally and the run
\* saves its outcome, the run stores status processed, a non-null
\* processedAt and the handler's result, whose event_type is the event's
\* event type, for each of the four registered types.
C11_HandlerResultIsStored ==
    [][\A id \in Rows :
          (RunEnds(id) /\ events[id].event \in DOMAIN processors) =>
              \A noteOk \in BOOLEAN :
                  RunFinish(id, FALSE, noteOk, FALSE) =>
                      LET event == from_db_row(events[id])
                          handled == CallProcessor(processors[event.event], event,
                                                   pega_client, noteOk)
                      IN  /\ events'[id].status = PROCESSED
                          /\ events'[id].processed_at # NULL
                          /\ events'[id].processing_result = Some(handled.result)
                          /\ events'[id].processing_result[1].status = "processed"
                          /\ events'[id].processing_result[1].event_type = events[id].event]_vars

C11_Witness ==
    /\ Len(events) = 2
    /\ \A id \in Rows :
          /\ events[id].status = PROCESSED
          /\ events[id].processed_at # NULL
          /\ events[id].processing_result # NULL
          /\ events[id].processing_result[1].event_type = events[id].event
    /\ {events[1].event, events[2].event} = {ROLE_CHANGE, EMPLOYEE_OFFBOARDING}

\* The handler of a run of id that is under way makes a case-system call
\* (add_case_note posts without a timeout), so it can be blocked for ever.
HandlerBlocked(id) ==
    /\ running[id] > 0
    /\ process_event(from_db_row(events[id]), pega_client, FALSE, TRUE).calls # <<>>

RunStep(id) == scheduled'[id] < scheduled[id] \/ running'[id] < running[id]

\* The step ends a processing run of id in failure.
RunFails(id) == RunStep(id) /\ InStore(id) /\ events'[id].status = FAILED

\* The failing run of a writes the error on a's record and touches the
\* record and the tasks of no other event.
C13_FailureStaysOnRecord ==
    \A a \in Rows :
        RunFails(a) =>
            /\ events'[a].processed_at # NULL
            /\ events'[a].processing_result # NULL
            /\ HasErrorMessage(events'[a].processing_result[1])
            /\ Len(events') = Len(events)
            /\ \A b \in Rows \ {a} :
                   /\ events'[b] = events[b]
                   /\ scheduled'[b] = scheduled[b]
                   /\ running'[b] = running[b]

\* Beside a failed event a, the run scheduled for an event b at its intake
\* has been carried out and b was not reprocessed: b has a terminal status.
C13_OthersReachTerminal ==
    \A a \in Rows :
        events[a].status = FAILED =>
            \A b \in Rows \ {a} :
                (/\ started[b] = 1
                 /\ scheduled[b] = 0 /\ running[b] = 0
                 /\ checked[b] = 0 /\ accepted[b] = 0) =>
                    events[b].status \in Terminal

\* C13: a failed processing run of event A is recorded on A's record only
\* and changes no other event's record, and every other scheduled event B
\* is still processed to a terminal status.
C13_FailureIsIsolated ==
    [][C13_FailureStaysOnRecord]_vars /\ []C13_OthersReachTerminal

\* Every run begun for an event was scheduled by its webhook call or by an
\* accepted reprocess request for it.
C14_RunsAreRequested ==
    \A id \in Rows : started[id] <= 1 + accepted[id]

\* A failed event leaves `failed` only in the step that answers an accepted
\* reprocess request for it.
C14_FailedStaysFailed ==
    \A id \in Rows :
        (events[id].status = FAILED /\ events'[id].status # FAILED) =>
            ReprocessAccepted(id)

\* C14: the number of processing runs started for an event is at most 1
\* plus the number of accepted reprocess requests for it, and a failed event
\* stays failed until a reprocess request for it is accepted.
C14_NoRerunWithoutRequest ==
    []C14_RunsAreRequested /\ [][C14_FailedStaysFailed]_vars

\* C15: every accepted webhook call adds exactly one record, after the ones
\* there are; no other step adds or removes a record; and a record is
\* changed only by a processing run of its own event or by an accepted
\* reprocess request for it.
C15_OneRecordPerCall ==
    [][/\ Len(events') = Len(events) + (IF \E id \in Ids : WebhookAccepted(id) THEN 1 ELSE 0)
       /\ SubSeq(events', 1, Len(events)) # events =>
              ~ \E id \in Ids : WebhookAccepted(id)
       /\ \A id \in Ids : WebhookAccepted(id) =>
              id = Len(events') /\ events'[id].id = id
       /\ \A id \in Rows :
              events'[id] # events[id] => RunStep(id) \/ ReprocessAccepted(id)]_vars

C15_Witness ==
    /\ Len(events) = MaxEvents
    /\ events[1].status = PROCESSED /\ accepted[1] = 0 /\ started[1] = 1
    /\ events[2].status = FAILED /\ accepted[2] = 1 /\ started[2] = 2
    /\ Quiescent

\* C16: the id an accepted webhook call returns is the id of the record it
\* inserted and is greater than the id of every record committed before;
\* the records, in the order of their commits, have strictly increasing ids,
\* so no two have the same id.
C16_IdsIncrease ==
    /\ [][\A id \in Ids :
             WebhookAccepted(id) =>
                 /\ events'[Len(events')].id = id
                 /\ \A r \in Rows : events[r].id < id]_vars
    /\ [](\A i \in Rows, j \in Rows : i < j => events[i].id < events[j].id)

C16_Witness ==
    /\ Len(events) = MaxEvents
    /\ response = [endpoint |-> "webhook", status_code |-> 200, eventId |-> MaxEvents]
    /\ events[1].status = PROCESSED
    /\ events[MaxEvents].id = MaxEvents

\* The columns of a row that no statement but the INSERT names.
Inserted(row) ==
    [id |-> row.id, received_at |-> row.received_at, case_id |-> row.case_id,
     event |-> row.event, payload_json |-> row.payload_json]

\* C17: in every state each record has the id, receivedAt, caseId, eventType
\* and payload it was inserted with; the steps of processing runs and of
\* reprocess requests leave these five fields of every record as they are.
C17_InsertedFieldsAreKept ==
    /\ [](\A id \in Rows : Inserted(events[id]) = Inserted(intake[id]))
    /\ [][\A id \in Rows :
             (RunStep(id) \/ ReprocessAccepted(id)) =>
                 \A r \in Rows : Inserted(events'[r]) = Inserted(events[r])]_vars

C17_Witness ==
    \E id \in Rows :
        /\ started[id] = 2 /\ accepted[id] = 1
        /\ scheduled[id] = 0 /\ running[id] = 0
        /\ events[id].status = PROCESSED
        /\ events[id].processing_result # intake[id].processing_result
        /\ Inserted(events[id]) = Inserted(intake[id])

\* C18: in every state the processedAt of an event is null exactly when its
\* processingResult is null.
C18_TimestampIffResult ==
    \A id \in Rows :
        events[id].processed_at = NULL <=> events[id].processing_result = NULL

\* One event holds the outcome of its run; the other had the outcome of its
\* run cleared by an accepted reprocess request.
C18_Witness ==
    \E a \in Rows, b \in Rows :
        /\ events[a].status = PROCESSED
        /\ events[a].processed_at # NULL /\ events[a].processing_result # NULL
        /\ started[b] = 1 /\ running[b] = 0 /\ accepted[b] = 1 /\ scheduled[b] = 1
        /\ events[b].status = RECEIVED
        /\ events[b].processed_at = NULL /\ events[b].processing_result = NULL

\* C19: in every state an event whose status is received or processing has
\* a null processedAt and a null processingResult.
C19_NonTerminalHasNoOutcome ==
    \A id \in Rows :
        events[id].status \in {RECEIVED, PROCESSING} =>
            events[id].processed_at = NULL /\ events[id].processing_result = NULL

\* The step begins a processing run of id.
RunBegins(id) == started'[id] > started[id]

\* C20: a processing run for an id that is not in the store writes nothing:
\* the records stay as they are, none is added, the run goes no further and
\* its task is gone from the queue with no other task added.
C20_AbsentIdWritesNothing ==
    [][\A id \in Ids :
          (RunBegins(id) /\ ~InStore(id)) =>
              /\ events' = events
              /\ running' = running
              /\ notes' = notes
              /\ scheduled' = [scheduled EXCEPT ![id] = @ - 1]
              /\ checked' = checked]_vars

\* The run for the absent id has just ended, beside a record that waits for
\* its own run.
C20_Witness ==
    /\ started[BadId] = 1 /\ scheduled[BadId] = 0 /\ running[BadId] = 0
    /\ Len(events) = 1
    /\ events[1].status = RECEIVED /\ scheduled[1] = 1 /\ started[1] = 0
    /\ reprocessed = 0
    /\ response = NoResponse

\* The record of id was `failed` with the error document of its handler
\* when the accepted reprocess request reset it.
FailedByHandlerBefore(id) ==
    /\ cleared[id] # NULL
    /\ "message" \in DOMAIN cleared[id][1]

\* C21: when a failed event was reprocessed and the handler of its new run
\* raises again, the run stores status failed with a timestamp and an error
\* result equal to the result the reprocess request had cleared.
C21_FailsAgainTheSame ==
    [][\A id \in Rows :
          (RunEnds(id) /\ FailedByHandlerBefore(id)
                       /\ events[id].event \in DOMAIN processors) =>
              \A noteOk \in BOOLEAN :
                  RunFinish(id, TRUE, noteOk, FALSE) =>
                      /\ events'[id].status = FAILED
                      /\ events'[id].processed_at # NULL
                      /\ events'[id].processing_result = cleared[id]
                      /\ events'[id].processing_result[1].status = "error"]_vars

C21_Witness ==
    \E id \in Rows :
        /\ FailedByHandlerBefore(id)
        /\ accepted[id] = 1 /\ started[id] = 2
        /\ scheduled[id] = 0 /\ running[id] = 0
        /\ events[id].status = FAILED
        /\ events[id].processing_result = cleared[id]

\* GET /events with no filter and the greatest limit.
ListAll == [limit |-> Some(100), event |-> None, status |-> None, case_id |-> None]

\* C22: in every state, for every event, GET /events/{id} answers with a
\* payload equal to the JSON object submitted, and so does the entry of that
\* event in the answer of GET /events.
C22_PayloadRoundTrip ==
    \A id \in Rows :
        /\ get_event(id).status_code = 200
        /\ get_event(id).body.payload = submitted[id]
        /\ list_events(ListAll).status_code = 200
        /\ \E i \in 1..Len(list_events(ListAll).body) :
               /\ list_events(ListAll).body[i].id = id
               /\ list_events(ListAll).body[i].payload = submitted[id]

\* The requests of GET /events: limit absent, below, within and above the
\* range; each filter absent or given.
Queries ==
    [limit : {NULL, Some(0), Some(1), Some(100), Some(101)},
     event : {None, DEPARTMENT_CHANGE},
     status : {None, PROCESSED},
     case_id : {None, "C-9"}]

\* The records that match every filter the request gives.
Matches(query) ==
    { id \in Rows :
        /\ query.event # None => events[id].event = query.event
        /\ query.status # None => events[id].status = query.status
        /\ query.case_id # None => events[id].case_id = query.case_id }

\* The answer to query is the first `limit` of the matching records, newest
\* first, each as it is stored; or a rejection without records.
AnswersQuery(query) ==
    LET limit == IF query.limit = NULL THEN 10 ELSE query.limit[1]
        answer == list_events(query)
        body == answer.body
    IN  IF limit \notin 1..100
        THEN answer.status_code \notin {200} /\ body = <<>>
        ELSE /\ answer.status_code = 200
             /\ Len(body) = Min(limit, Cardinality(Matches(query)))
             /\ \A i \in 1..Len(body) :
                    /\ body[i].id \in Matches(query)
                    /\ body[i].status = events[body[i].id].status
                    /\ body[i].event = events[body[i].id].event
                    /\ body[i].caseId = events[body[i].id].case_id
             /\ \A i \in 1..Len(body), j \in 1..Len(body) :
                    i < j => body[i].id > body[j].id
             /\ \A id \in Matches(query) :
                    (\A i \in 1..Len(body) : body[i].id # id) =>
                        \A i \in 1..Len(body) : id < body[i].id

\* C23: GET /events returns exactly the records that match every filter
\* given, in strictly descending id order, cut to the first `limit` of them,
\* with limit from 1 to 100 and 10 when absent; a limit outside 1..100 is
\* rejected and returns no record.
C23_ListReturnsMatches == \A query \in Queries : AnswersQuery(query)

\* C24: at any time at most one processing run is scheduled or under way
\* for an event.
C24_OneRunPerEvent ==
    \A id \in Rows : scheduled[id] + running[id] <= 1

\* C25: the reset of an accepted reprocess request is written to a record
\* whose status, in the state the write is applied to, is failed or received.
C25_ResetOnlyFailedOrReceived ==
    [][\A id \in Rows :
          ReprocessAccepted(id) => events[id].status \in {FAILED, RECEIVED}]_vars

\* C26: in every state the stored status of every event is received,
\* processing, processed or failed, never requires_action.
C26_NeverRequiresAction ==
    \A id \in Rows :
        /\ events[id].status # REQUIRES_ACTION
        /\ events[id].status \in EventStatus

\* Both events were run, one of them twice and with a risk alert posted: one
\* is stored processed and one failed.
C26_Witness ==
    /\ Len(events) = MaxEvents
    /\ Quiescent
    /\ notes # <<>>
    /\ \E a \in Rows, b \in Rows :
          /\ events[a].status = PROCESSED /\ events[b].status = FAILED
          /\ started[a] + started[b] = 3

\* The text _process_department_change records for the alert.
RiskAlertSent == "Risk alert sent to Pega"

\* C27: a run of a department_change event whose add-note call reports
\* failure does not store "Risk alert sent to Pega" among its actions_taken.
C27_AlertRecordedOnlyIfSent ==
    [][\A id \in Rows :
          (RunEnds(id) /\ events[id].event = DEPARTMENT_CHANGE) =>
              (RunFinish(id, FALSE, FALSE, FALSE) =>
                  \A i \in 1..Len(events'[id].processing_result[1].actions_taken) :
                      events'[id].processing_result[1].actions_taken[i] # RiskAlertSent)]_vars

====
